---- MODULE Spec2Model ----
(***************************************************************************)
(* A model of the yateto expression DSL (yateto/ast/node.py), of the       *)
(* lowering pass AST2ControlFlow (yateto/controlflow/visitor.py) and of    *)
(* the tensor collection of kernel generation (yateto/codegen/visitor.py). *)
(*                                                                         *)
(* Part I models the lowering pass as a small-step machine: every pass     *)
(* instance owns its temporary counter, its action list and its writable   *)
(* set, and walks its trees with an explicit call stack, one frame per     *)
(* active visit() call.                                                    *)
(***************************************************************************)
EXTENDS Integers, Sequences, FiniteSets, TLC

VARIABLES
  input,      \* input[i]: the trees the driver hands to instance i's visit(), in order
  pos,        \* pos[i]: how many of them visit() has been called on
  stack,      \* stack[i]: the active visit() calls of instance i, innermost last
  tmp,        \* AST2ControlFlow._tmp
  cfg,        \* AST2ControlFlow._cfg
  writable,   \* AST2ControlFlow._writable
  failed,     \* failed[i]: a visit() of instance i raised
  returned,   \* returned[i]: what the latest cfg() call of instance i returned
  begun,      \* begun[i]: names of the IndexedTensor targets of the Assigns whose visit was called
  heap,       \* the Node objects of a DSL session: heap[id] is the object's class and fields
  outcome,    \* the latest DSL operator application: operands, value or exception
  ops,        \* the number of DSL operator applications so far
  kernel,     \* one OptimisedKernelGenerator.generate() call: its cfg and what it collected
  build       \* one Product or Contraction construction: operands, node or exception

passVars == <<input, pos, stack, tmp, cfg, writable, failed, returned, begun>>

dslVars == <<heap, outcome, ops>>

auxVars == <<kernel, build>>

vars == <<passVars, dslVars, auxVars>>

(***************************************************************************)
(* Bounds of the model                                                     *)
(***************************************************************************)
MaxAddChildren == 3     \* most operands of an Add among the single-tree inputs
MaxTrees == 2           \* most top-level trees lowered by one pass instance
MaxOps == 2             \* most DSL operator applications of one session

Inst == {1, 2}          \* the pass instances

(***************************************************************************)
(* Expression trees: node.py's classes, as far as the pass reads them.     *)
(* A node is its class name, its name() source (the tensor name), its      *)
(* scalar and its ordered child list. Indices, sparsity patterns and       *)
(* memory layouts are payloads the pass copies and never inspects.         *)
(***************************************************************************)
Node(k, n, s, ch) == [kind |-> k, name |-> n, scalar |-> s, children |-> ch]

IndexedTensor(n) == Node("IndexedTensor", n, 0, <<>>)

Einsum(ch) == Node("Einsum", "", 0, ch)

Add(ch) == Node("Add", "", 0, ch)

ScalarMultiplication(s, t) == Node("ScalarMultiplication", "", s, <<t>>)

Assign(l, r) == Node("Assign", "", 0, <<l, r>>)

IndexSum(t) == Node("IndexSum", "", 0, <<t>>)

Contraction(l, r) == Node("Contraction", "", 0, <<l, r>>)

\* str(float(s)) for an integral constant scalar s
FloatStr(s) == ToString(s) \o ".0"

\* the classes that define name()
HasName(node) == node.kind \in {"IndexedTensor", "ScalarMultiplication"}

\* IndexedTensor.name() / ScalarMultiplication.name() of a constant scalar
NodeName(node) == IF node.kind = "IndexedTensor" THEN node.name ELSE FloatStr(node.scalar)

(***************************************************************************)
(* Control-flow values                                                     *)
(***************************************************************************)
NoTensor == "None"

\* Variable(name, writable, memoryLayout, eqspp, tensor)
Variable(n, w, t) == [name |-> n, writable |-> w, tensor |-> t]

\* Variable.isGlobal(): the variable references a tensor
isGlobal(var) == var.tensor # NoTensor

NoNode == Node("None", "", 0, <<>>)

NoScalar == 0

\* Expression(node, memoryLayout, variables): a term that is an operation on variables
Expression(node, variables) == [isExpr |-> TRUE, node |-> node, vars |-> variables]

\* a term that is one plain Variable
VarTerm(var) == [isExpr |-> FALSE, node |-> NoNode, vars |-> <<var>>]

\* ProgramAction(result, term, add, scalar=None)
ProgramAction(result, term, add, scalar) ==
  [result |-> result, term |-> term, add |-> add, scalar |-> scalar]

NoAction == ProgramAction(Variable("", FALSE, NoTensor), VarTerm(Variable("", FALSE, NoTensor)), FALSE, NoScalar)

\* ProgramPoint(action); ProgramPoint(None) is the sentinel
ProgramPoint(action) == [hasAction |-> TRUE, action |-> action]

Sentinel == [hasAction |-> FALSE, action |-> NoAction]

\* a reference to a Python value: the Node object id, or the number v
NodeRef(id) == [node |-> TRUE, v |-> id]

Number(x) == [node |-> FALSE, v |-> x]

\* no exception: its type and the name its message reports
NoError == [type |-> "None", named |-> ""]

NoOutcome == [op |-> "", left |-> Number(0), right |-> Number(0), value |-> Number(0), error |-> "None"]

(***************************************************************************)
(* AST2ControlFlow helpers                                                 *)
(***************************************************************************)
TEMPORARY_RESULT == "_tmp"

\* a counter kept in one cell for all instances
TmpCounter_Shared(counters, i) == counters[1]

\* the counter _nextTemporary of instance i reads and advances
TmpCounter(counters, i) == counters[i]

\* _nextTemporary: the Variable named after the counter value n
TemporaryVariable(n) == Variable(TEMPORARY_RESULT \o ToString(n), TRUE, NoTensor)

\* visit_IndexedTensor: the Variable of a tensor occurrence, given the writable names w
TensorVariable(node, w) == Variable(node.name, node.name \in w, node.name)

\* a visit_Assign that registers nothing
RegisterWritable_Never(w, node) == w

\* visit_Assign's first statement
RegisterWritable(w, node) == w \cup {NodeName(node.children[1])}

\* a key that ranks writability above globality instead of adding the two
SortKey_Lexicographic(var) == 2 * (IF var.writable THEN 0 ELSE 1) + (IF isGlobal(var) THEN 0 ELSE 1)

\* the key visit_Add sorts by
SortKey(var) == (IF var.writable THEN 0 ELSE 1) + (IF isGlobal(var) THEN 0 ELSE 1)

\* list.sort(key=...): a stable sort, here by insertion from the left
RECURSIVE InsertByKey(_, _)
InsertByKey(sorted, var) ==
  IF sorted = <<>> THEN <<var>>
  ELSE IF SortKey(sorted[Len(sorted)]) <= SortKey(var) THEN Append(sorted, var)
  ELSE Append(InsertByKey(SubSeq(sorted, 1, Len(sorted) - 1), var), sorted[Len(sorted)])

RECURSIVE SortVariables(_)
SortVariables(variables) ==
  IF variables = <<>> THEN <<>>
  ELSE InsertByKey(SortVariables(SubSeq(variables, 1, Len(variables) - 1)),
                   variables[Len(variables)])

\* a visit_Add whose loop never sets add
AddActions_NeverAccumulate(t, variables) ==
  [k \in 1..Len(variables) |-> ProgramPoint(ProgramAction(t, VarTerm(variables[k]), FALSE, NoScalar))]

\* a visit_Add that emits one action for the whole sum
AddActions_FirstOnly(t, variables) ==
  <<ProgramPoint(ProgramAction(t, VarTerm(variables[1]), FALSE, NoScalar))>>

\* visit_Add's loop: one action per operand into tmp, the first with add=False
AddActions(t, variables) ==
  [k \in 1..Len(variables) |-> ProgramPoint(ProgramAction(t, VarTerm(variables[k]), k > 1, NoScalar))]

\* Visitor.visit: the method a node's class name selects
Dispatch(node) ==
  IF node.kind \in {"Add", "ScalarMultiplication", "Assign", "IndexedTensor"}
  THEN "visit_" \o node.kind
  ELSE "generic_visit"

(***************************************************************************)
(* The call stack                                                          *)
(***************************************************************************)
\* a visit(node) call: the variables its children returned so far
Frame(node) == [node |-> node, vars |-> <<>>, entered |-> FALSE]

Top(i) == stack[i][Len(stack[i])]

Running(i) == stack[i] # <<>>

\* the innermost call returns r to its caller's list of variables
Return(s, r) ==
  LET rest == SubSeq(s, 1, Len(s) - 1)
  IN  IF rest = <<>> THEN rest
      ELSE [rest EXCEPT ![Len(rest)].vars = Append(@, r)]

\* the Assign targets whose visit starts when visit(node) is called
Targets(node) ==
  IF node.kind = "Assign" /\ node.children[1].kind = "IndexedTensor"
  THEN {node.children[1].name} ELSE {}

ChildrenDone(f) == Len(f.vars) = Len(f.node.children)

(***************************************************************************)
(* The steps of a pass instance                                            *)
(***************************************************************************)
\* the driver calls visit(tree) on the next top-level tree
StartVisit(i) ==
  /\ ~Running(i) /\ ~failed[i]
  /\ pos[i] < Len(input[i])
  /\ LET node == input[i][pos[i] + 1]
     IN  /\ stack' = [stack EXCEPT ![i] = <<Frame(node)>>]
         /\ begun' = [begun EXCEPT ![i] = @ \cup Targets(node)]
  /\ pos' = [pos EXCEPT ![i] = @ + 1]
  /\ UNCHANGED <<input, tmp, cfg, writable, failed, returned>>
  /\ UNCHANGED <<dslVars, auxVars>>

\* [self.visit(child) for child in node]: the call on the next child
VisitChild(i) ==
  /\ Running(i)
  /\ LET f == Top(i)
     IN  /\ Dispatch(f.node) # "visit_IndexedTensor"
         /\ Dispatch(f.node) = "visit_Assign" => f.entered
         /\ ~ChildrenDone(f)
         /\ LET child == f.node.children[Len(f.vars) + 1]
            IN  /\ stack' = [stack EXCEPT ![i] = Append(@, Frame(child))]
                /\ begun' = [begun EXCEPT ![i] = @ \cup Targets(child)]
  /\ UNCHANGED <<input, pos, tmp, cfg, writable, failed, returned>>
  /\ UNCHANGED <<dslVars, auxVars>>

visit_IndexedTensor(i) ==
  /\ Running(i)
  /\ Dispatch(Top(i).node) = "visit_IndexedTensor"
  /\ stack' = [stack EXCEPT ![i] = Return(@, TensorVariable(Top(i).node, writable[i]))]
  /\ UNCHANGED <<input, pos, tmp, cfg, writable, failed, returned, begun>>
  /\ UNCHANGED <<dslVars, auxVars>>

\* visit_Assign up to its list comprehension: node[0].name() joins _writable,
\* or raises AttributeError when node[0]'s class has no name()
visit_Assign_register(i) ==
  /\ Running(i)
  /\ LET f == Top(i)
     IN  /\ Dispatch(f.node) = "visit_Assign"
         /\ ~f.entered
         /\ IF HasName(f.node.children[1])
            THEN /\ writable' = [writable EXCEPT ![i] = RegisterWritable(@, f.node)]
                 /\ stack' = [stack EXCEPT ![i][Len(stack[i])].entered = TRUE]
                 /\ UNCHANGED failed
            ELSE /\ failed' = [failed EXCEPT ![i] = TRUE]
                 /\ stack' = [stack EXCEPT ![i] = <<>>]
                 /\ UNCHANGED writable
  /\ UNCHANGED <<input, pos, tmp, cfg, returned, begun>>
  /\ UNCHANGED <<dslVars, auxVars>>

\* visit_Assign after its children: the assigning action into variables[0]
visit_Assign(i) ==
  /\ Running(i)
  /\ LET f == Top(i)
     IN  /\ Dispatch(f.node) = "visit_Assign"
         /\ f.entered
         /\ ChildrenDone(f)
         /\ cfg' = [cfg EXCEPT ![i] = Append(@, ProgramPoint(
                      ProgramAction(f.vars[1], VarTerm(f.vars[2]), FALSE, NoScalar)))]
         /\ stack' = [stack EXCEPT ![i] = Return(@, f.vars[1])]
  /\ UNCHANGED <<input, pos, tmp, writable, failed, returned, begun>>
  /\ UNCHANGED <<dslVars, auxVars>>

\* generic_visit after its children
generic_visit(i) ==
  /\ Running(i)
  /\ LET f == Top(i)
         result == TemporaryVariable(TmpCounter(tmp, i))
     IN  /\ Dispatch(f.node) = "generic_visit"
         /\ ChildrenDone(f)
         /\ tmp' = [tmp EXCEPT ![i] = TmpCounter(tmp, i) + 1]
         /\ cfg' = [cfg EXCEPT ![i] = Append(@, ProgramPoint(
                      ProgramAction(result, Expression(f.node, f.vars), FALSE, NoScalar)))]
         /\ stack' = [stack EXCEPT ![i] = Return(@, result)]
  /\ UNCHANGED <<input, pos, writable, failed, returned, begun>>
  /\ UNCHANGED <<dslVars, auxVars>>

\* visit_Add after its children; the assert fails on fewer than two operands
visit_Add(i) ==
  /\ Running(i)
  /\ LET f == Top(i)
         t == TemporaryVariable(TmpCounter(tmp, i))
     IN  /\ Dispatch(f.node) = "visit_Add"
         /\ ChildrenDone(f)
         /\ IF Len(f.vars) > 1
            THEN /\ tmp' = [tmp EXCEPT ![i] = TmpCounter(tmp, i) + 1]
                 /\ cfg' = [cfg EXCEPT ![i] = @ \o AddActions(t, SortVariables(f.vars))]
                 /\ stack' = [stack EXCEPT ![i] = Return(@, t)]
                 /\ UNCHANGED failed
            ELSE /\ failed' = [failed EXCEPT ![i] = TRUE]
                 /\ stack' = [stack EXCEPT ![i] = <<>>]
                 /\ UNCHANGED <<tmp, cfg>>
  /\ UNCHANGED <<input, pos, writable, returned, begun>>
  /\ UNCHANGED <<dslVars, auxVars>>

\* visit_ScalarMultiplication after visiting node.term()
visit_ScalarMultiplication(i) ==
  /\ Running(i)
  /\ LET f == Top(i)
         result == TemporaryVariable(TmpCounter(tmp, i))
     IN  /\ Dispatch(f.node) = "visit_ScalarMultiplication"
         /\ ChildrenDone(f)
         /\ tmp' = [tmp EXCEPT ![i] = TmpCounter(tmp, i) + 1]
         /\ cfg' = [cfg EXCEPT ![i] = Append(@, ProgramPoint(
                      ProgramAction(result, VarTerm(f.vars[1]), FALSE, f.node.scalar)))]
         /\ stack' = [stack EXCEPT ![i] = Return(@, result)]
  /\ UNCHANGED <<input, pos, writable, failed, returned, begun>>
  /\ UNCHANGED <<dslVars, auxVars>>

\* a cfg() that returns the list without the sentinel
CfgResult_NoSentinel(c) == c

\* what cfg() returns for the list c
CfgResult(c) == c \o <<Sentinel>>

\* cfg(): the actions so far and the sentinel, in a new list
Cfg(i) ==
  /\ returned' = [returned EXCEPT ![i] = CfgResult(cfg[i])]
  /\ UNCHANGED <<input, pos, stack, tmp, cfg, writable, failed, begun>>
  /\ UNCHANGED <<dslVars, auxVars>>

(***************************************************************************)
(* Inputs                                                                  *)
(***************************************************************************)
Names == {"A", "B", "C", "D"}

SeqsOf(S, lo, hi) == UNION {[1..n -> S] : n \in lo..hi}

Leaves == {IndexedTensor(n) : n \in Names}

AB == Contraction(IndexedTensor("A"), IndexedTensor("B"))

Operands == Leaves \cup {AB, ScalarMultiplication(2, IndexedTensor("D"))}

Sums == {Add(ch) : ch \in SeqsOf(Operands, 2, MaxAddChildren)}

Exprs ==
  Operands \cup Sums
  \cup {IndexSum(AB), Einsum(<<IndexedTensor("D")>>),
        ScalarMultiplication(-1, Add(<<IndexedTensor("C"), AB>>))}

\* every Node passes as the left operand of <=
Lefts == Leaves \cup {ScalarMultiplication(2, IndexedTensor("A")), AB}

Trees == Exprs \cup {Assign(l, e) : l \in Lefts, e \in Exprs}

SmallExprs ==
  {AB, ScalarMultiplication(2, IndexedTensor("C")),
   Add(<<IndexedTensor("C"), IndexedTensor("D")>>),
   Add(<<IndexedTensor("D"), AB, IndexedTensor("C")>>)}

SmallLefts == {IndexedTensor("A"), IndexedTensor("C"), ScalarMultiplication(2, IndexedTensor("A"))}

SmallTrees == SmallExprs \cup {Assign(l, e) : l \in SmallLefts, e \in SmallExprs}

Inputs == {<<t>> : t \in Trees} \cup SeqsOf(SmallTrees, 0, MaxTrees)

NoInput == [i \in Inst |-> <<>>]

\* the state after AST2ControlFlow() for every instance
InitPass ==
  /\ pos = [i \in Inst |-> 0]
  /\ stack = [i \in Inst |-> <<>>]
  /\ tmp = [i \in Inst |-> 0]
  /\ cfg = [i \in Inst |-> <<>>]
  /\ writable = [i \in Inst |-> {}]
  /\ failed = [i \in Inst |-> FALSE]
  /\ returned = [i \in Inst |-> <<>>]
  /\ begun = [i \in Inst |-> {}]

\* no DSL session
NoSession == heap = <<>> /\ outcome = NoOutcome /\ ops = 0

\* no kernel generated
NoKernel == [cfg |-> <<>>, ran |-> FALSE, variables |-> <<>>, tensors |-> <<>>, error |-> NoError]

\* Node._eqspp: None, or the pattern whose non-zero entries are nz
NoSpp == [known |-> FALSE, nz |-> {}]

Spp(nz) == [known |-> TRUE, nz |-> nz]

\* an operand of a Product or Contraction, as far as the constructors and
\* the sparsity methods read it: its indices and its eqspp()
Term(indices, eqspp) == [indices |-> indices, eqspp |-> eqspp]

\* a Product or Contraction object: its class, indices, sumIndices and _eqspp
Built(class, indices, sumIndices, eqspp) ==
  [class |-> class, indices |-> indices, sumIndices |-> sumIndices, eqspp |-> eqspp]

NoBuilt == Built("None", <<>>, {}, NoSpp)

\* no Product or Contraction constructed: the operands, whether a constructor
\* was called and what it raised or built, whether nonZeroFlops() was called
\* and what it raised or returned
NoBuild ==
  [lTerm |-> Term(<<>>, NoSpp), rTerm |-> Term(<<>>, NoSpp),
   made |-> FALSE, error |-> "None", node |-> NoBuilt,
   asked |-> FALSE, flopsError |-> "None", flops |-> 0]

NoAux == kernel = NoKernel /\ build = NoBuild

\* one pass instance lowers a sequence of trees
Init ==
  /\ \E ts \in Inputs : input = [NoInput EXCEPT ![1] = ts]
  /\ InitPass
  /\ NoSession
  /\ NoAux

Next ==
  \/ \E i \in Inst : StartVisit(i)
  \/ \E i \in Inst : VisitChild(i)
  \/ \E i \in Inst : visit_IndexedTensor(i)
  \/ \E i \in Inst : visit_Assign_register(i)
  \/ \E i \in Inst : visit_Assign(i)
  \/ \E i \in Inst : generic_visit(i)
  \/ \E i \in Inst : visit_Add(i)
  \/ \E i \in Inst : visit_ScalarMultiplication(i)

Spec == Init /\ [][Next]_vars

\* instance i has lowered all its trees
Done(i) == ~Running(i) /\ ~failed[i] /\ pos[i] = Len(input[i])

(***************************************************************************)
(* Vocabulary of the properties of the lowering pass                       *)
(***************************************************************************)
\* every node of a tree, parents before children, left to right
RECURSIVE Subtrees(_)
RECURSIVE SubtreesOfAll(_)
Subtrees(node) == <<node>> \o SubtreesOfAll(node.children)

SubtreesOfAll(nodes) ==
  IF nodes = <<>> THEN <<>> ELSE Subtrees(Head(nodes)) \o SubtreesOfAll(Tail(nodes))

IsAssign(node) == node.kind = "Assign"

IsEinsum(node) == node.kind = "Einsum"

\* the Assign nodes of a sequence of trees
AssignCount(trees) == Len(SelectSeq(SubtreesOfAll(trees), IsAssign))

\* a finalized tree holds no Einsum placeholder
Finalized(tree) == SelectSeq(Subtrees(tree), IsEinsum) = <<>>

\* actions a node accounts for: an Add one per child, any other inner node one
NodeActions(node) ==
  IF node.children = <<>> THEN 0
  ELSE IF node.kind = "Add" THEN Len(node.children) ELSE 1

RECURSIVE SumNodeActions(_)
SumNodeActions(nodes) ==
  IF nodes = <<>> THEN 0 ELSE NodeActions(Head(nodes)) + SumNodeActions(Tail(nodes))

ExpectedActions(tree) == SumNodeActions(Subtrees(tree))

\* the actions of instance i, in emission order
ActionsOf(i) == [k \in 1..Len(cfg[i]) |-> cfg[i][k].action]

\* the variables an action reads
Reads(a) == {a.term.vars[k] : k \in 1..Len(a.term.vars)}

GlobalResult(pp) == isGlobal(pp.action.result)

\* the temporary named n is assigned (add=False) at position d of the actions as
Defines(as, d, n) == ~isGlobal(as[d].result) /\ as[d].result.name = n /\ ~as[d].add

\* what the temporaries of one action list owe: one definition, before every use
TemporariesDefinedOnce(as) ==
  \A k \in 1..Len(as) :
    \A v \in {as[k].result} \cup Reads(as[k]) :
      ~isGlobal(v) =>
        LET defs == {d \in 1..Len(as) : Defines(as, d, v.name)}
        IN  /\ Cardinality(defs) = 1
            /\ \A d \in defs :
                 /\ d <= k
                 /\ (v \in Reads(as[k]) \/ as[k].add) => d < k

\* every Assign of the trees has an IndexedTensor as its left child
TensorTargets(trees) ==
  \A k \in 1..Len(SubtreesOfAll(trees)) :
    LET node == SubtreesOfAll(trees)[k]
    IN  IsAssign(node) => node.children[1].kind = "IndexedTensor"

(***************************************************************************)
(* C1: every temporary of a pass instance's action list is the result of   *)
(* exactly one non-accumulating action, and that action comes before every *)
(* accumulation into the temporary and before every action that reads it.  *)
(***************************************************************************)
C1_TemporaryDefinedOnce == \A i \in Inst : TemporariesDefinedOnce(ActionsOf(i))

\* the same, for the inputs whose Assign targets are all IndexedTensors
TensorTargets_TemporaryDefinedOnce ==
  \A i \in Inst : TensorTargets(input[i]) => TemporariesDefinedOnce(ActionsOf(i))

(***************************************************************************)
(* C2: the actions with a global result are exactly the Assigns: when an   *)
(* instance has lowered its trees, it emitted as many actions with a       *)
(* global result as the trees hold Assign nodes, all of them with          *)
(* add=False.                                                              *)
(***************************************************************************)
GlobalWritesMatchAssigns(i) ==
  /\ Len(SelectSeq(cfg[i], GlobalResult)) = AssignCount(input[i])
  /\ \A k \in 1..Len(cfg[i]) : GlobalResult(cfg[i][k]) => ~cfg[i][k].action.add

C2_GlobalWritesAreAssigns == \A i \in Inst : Done(i) => GlobalWritesMatchAssigns(i)

\* the same, for the inputs whose Assign targets are all IndexedTensors
TensorTargets_GlobalWritesAreAssigns ==
  \A i \in Inst : Done(i) /\ TensorTargets(input[i]) => GlobalWritesMatchAssigns(i)

(***************************************************************************)
(* C3: the scenario C <= A*B + D, lowered by a fresh pass instance         *)
(***************************************************************************)
ScenarioSum == Assign(IndexedTensor("C"), Add(<<AB, IndexedTensor("D")>>))

ScenarioLowered == input[1] = <<ScenarioSum>> /\ Done(1)

Tmp0 == TemporaryVariable(0)

Tmp1 == TemporaryVariable(1)

VarD == Variable("D", FALSE, "D")

\* the two actions of the sum: one of {t0, D} assigned, the other accumulated
SumOfScenario(first, second) ==
  /\ ~first.add /\ second.add
  /\ first.result = second.result
  /\ ~first.term.isExpr /\ ~second.term.isExpr
  /\ {first.term.vars[1], second.term.vars[1]} = {Tmp0, VarD}

ContractionIntoTmp0(a) ==
  /\ a.result = Tmp0 /\ ~a.add
  /\ a.term.isExpr /\ a.term.node = AB

\* C3 as claimed: the scenario lowers to exactly three actions, the
\* contraction into t0 and then one of {t0, D} assigned and the other accumulated
C3_ScenarioThreeActions ==
  ScenarioLowered =>
    /\ Len(cfg[1]) = 3
    /\ ContractionIntoTmp0(ActionsOf(1)[1])
    /\ SumOfScenario(ActionsOf(1)[2], ActionsOf(1)[3])

\* C3 as amended: the scenario lowers to exactly four actions: the contraction
\* into t0, then one of {t0, D} assigned into the fresh temporary t1 and the
\* other accumulated into t1, and last the non-accumulating copy of t1 into C
C3_ScenarioFourActions ==
  ScenarioLowered =>
    /\ Len(cfg[1]) = 4
    /\ ContractionIntoTmp0(ActionsOf(1)[1])
    /\ SumOfScenario(ActionsOf(1)[2], ActionsOf(1)[3])
    /\ ActionsOf(1)[2].result = Tmp1
    /\ ActionsOf(1)[4] = ProgramAction(Variable("C", TRUE, "C"), VarTerm(Tmp1), FALSE, NoScalar)

C3_Witness == ScenarioLowered /\ Len(cfg[1]) = 4

(***************************************************************************)
(* C4: a fresh pass instance that lowered one finalized tree emitted one   *)
(* action per inner node that is not an Add and one action per child of    *)
(* every Add; a leaf emits none.                                           *)
(***************************************************************************)
C4_ActionCount ==
  \A i \in Inst :
    Done(i) /\ Len(input[i]) = 1 /\ Finalized(input[i][1]) =>
      Len(cfg[i]) = ExpectedActions(input[i][1])

\* a lowered tree with an Add of three operands under an Assign
C4_Witness ==
  /\ Done(1) /\ Len(input[1]) = 1 /\ Finalized(input[1][1])
  /\ input[1][1].kind = "Assign"
  /\ input[1][1].children[2].kind = "Add"
  /\ Len(input[1][1].children[2].children) = 3
  /\ Len(cfg[1]) >= 5

(***************************************************************************)
(* C5: the order in which visit_Add emits its operands                     *)
(***************************************************************************)
\* the operands of the actions the step of instance i appended
Emitted(i) ==
  [k \in 1..(Len(cfg'[i]) - Len(cfg[i])) |-> cfg'[i][Len(cfg[i]) + k].action.term.vars[1]]

\* after is before reordered stably by ascending rank
StablyOrderedBy(after, before, rank(_)) ==
  /\ Len(after) = Len(before)
  /\ \A p, q \in 1..Len(after) : p < q => rank(after[p]) <= rank(after[q])
  /\ \A r \in 0..3 :
       SelectSeq(after, LAMBDA v : rank(v) = r) = SelectSeq(before, LAMBDA v : rank(v) = r)

\* writable before non-writable, and global before temporary among equals
WritableThenGlobal(var) == 2 * (IF var.writable THEN 0 ELSE 1) + (IF isGlobal(var) THEN 0 ELSE 1)

\* writable globals before everything else
WritableGlobalFirst(var) == IF var.writable /\ isGlobal(var) THEN 0 ELSE 1

AddSorts(i) == visit_Add(i) /\ ~failed'[i]

\* C5 as claimed: the operands are emitted in child order stably reordered
\* with every writable operand before every non-writable one and, among operands
\* of equal writability, every global before every temporary
C5_WritableThenGlobalOrder ==
  [][\A i \in Inst : AddSorts(i) => StablyOrderedBy(Emitted(i), Top(i).vars, WritableThenGlobal)]_vars

\* C5 as amended: the operands are emitted in child order stably reordered
\* with every writable global operand before every other operand; writable
\* temporaries and non-writable globals tie and keep their child order
C5_WritableGlobalFirstOrder ==
  [][\A i \in Inst : AddSorts(i) => StablyOrderedBy(Emitted(i), Top(i).vars, WritableGlobalFirst)]_vars

\* C <= D + A*B + C was lowered: C moved to the front, D stayed before the temporary
C5_Witness ==
  /\ Done(1)
  /\ input[1] = <<Assign(IndexedTensor("C"), Add(<<IndexedTensor("D"), AB, IndexedTensor("C")>>))>>
  /\ ActionsOf(1)[2].term.vars[1] = Variable("C", TRUE, "C")
  /\ ActionsOf(1)[3].term.vars[1] = VarD
  /\ ActionsOf(1)[4].term.vars[1] = Tmp0

(***************************************************************************)
(* C6: the Variable of an IndexedTensor occurrence is writable exactly     *)
(* when the visit of an Assign with that tensor as its target was called   *)
(* before the occurrence is visited, and a writable name stays writable.   *)
(***************************************************************************)
\* the Variable the visit_IndexedTensor step of instance i handed to its caller
Handed(i) ==
  LET caller == stack'[i][Len(stack'[i])]
  IN  caller.vars[Len(caller.vars)]

FreshPass == [tmp |-> 0, cfg |-> <<>>, writable |-> {}, ok |-> TRUE]

NoVariable == Variable("", FALSE, NoTensor)

Raised(st) == [st |-> [st EXCEPT !.ok = FALSE], result |-> NoVariable]

\* _addAction after _nextTemporary: the action on a fresh temporary joins the list
EmitIntoTemporary(st, points) ==
  [st EXCEPT !.tmp = @ + 1, !.cfg = @ \o points]

RECURSIVE visit(_, _)
RECURSIVE visitChildren(_, _, _)
visit(node, st) ==
  LET method == Dispatch(node)
  IN  IF method = "visit_IndexedTensor"
      THEN [st |-> st, result |-> TensorVariable(node, st.writable)]
      ELSE IF method = "visit_Assign" /\ ~HasName(node.children[1])
      THEN Raised(st)
      ELSE
        LET entry == IF method = "visit_Assign"
                     THEN [st EXCEPT !.writable = RegisterWritable(@, node)]
                     ELSE st
            sub == visitChildren(node.children, entry, <<>>)
            variables == sub.vars
        IN  IF ~sub.st.ok THEN Raised(sub.st)
            ELSE IF method = "visit_Assign"
            THEN [st |-> [sub.st EXCEPT !.cfg = Append(@, ProgramPoint(
                            ProgramAction(variables[1], VarTerm(variables[2]), FALSE, NoScalar)))],
                  result |-> variables[1]]
            ELSE
              LET u == TemporaryVariable(sub.st.tmp)
              IN  IF method = "visit_Add"
                  THEN IF Len(variables) > 1
                       THEN [st |-> EmitIntoTemporary(sub.st, AddActions(u, SortVariables(variables))),
                             result |-> u]
                       ELSE Raised(sub.st)
                  ELSE IF method = "visit_ScalarMultiplication"
                  THEN [st |-> EmitIntoTemporary(sub.st, <<ProgramPoint(
                                 ProgramAction(u, VarTerm(variables[1]), FALSE, node.scalar))>>),
                        result |-> u]
                  ELSE [st |-> EmitIntoTemporary(sub.st, <<ProgramPoint(
                                 ProgramAction(u, Expression(node, variables), FALSE, NoScalar))>>),
                        result |-> u]

visitChildren(children, st, variables) ==
  IF children = <<>> \/ ~st.ok THEN [st |-> st, vars |-> variables]
  ELSE LET r == visit(Head(children), st)
       IN  visitChildren(Tail(children), r.st, Append(variables, r.result))

\* the driver's loop over its trees, stopping at the first visit() that raises
RECURSIVE LowerAlone(_, _)
LowerAlone(trees, st) ==
  IF trees = <<>> \/ ~st.ok THEN st
  ELSE LowerAlone(Tail(trees), visit(Head(trees), st).st)

(***************************************************************************)
(* Two pass instances whose steps interleave                               *)
(***************************************************************************)
PairTrees == {ScenarioSum, Add(<<IndexedTensor("C"), ScalarMultiplication(2, IndexedTensor("D"))>>)}

PairInputs == SeqsOf(PairTrees, 1, MaxTrees)

InitPair ==
  /\ input \in [Inst -> PairInputs]
  /\ InitPass
  /\ NoSession
  /\ NoAux

SpecPair == InitPair /\ [][Next]_vars

IsPrefix(s, t) == Len(s) <= Len(t) /\ s = SubSeq(t, 1, Len(s))

(***************************************************************************)
(* C7: however the steps of two instances interleave, each instance emits  *)
(* the action list it emits when run alone, temporary names included; two  *)
(* fresh instances that lowered the same trees hold identical lists.       *)
(***************************************************************************)
C7_InstancesIsolated ==
  /\ \A i \in Inst :
       LET alone == LowerAlone(input[i], FreshPass)
       IN  /\ IsPrefix(cfg[i], alone.cfg)
           /\ Done(i) => cfg[i] = alone.cfg /\ tmp[i] = alone.tmp /\ writable[i] = alone.writable
  /\ \A i, j \in Inst : Done(i) /\ Done(j) /\ input[i] = input[j] => cfg[i] = cfg[j]

\* both instances are in the middle of lowering the same tree and hold temporaries
C7_Witness ==
  /\ input[1] = input[2]
  /\ Running(1) /\ Running(2)
  /\ tmp[1] = 1 /\ tmp[2] = 2

(***************************************************************************)
(* A pass instance whose cfg() is called at any point                      *)
(***************************************************************************)
InitCfg ==
  /\ \E ts \in SeqsOf(PairTrees, 0, MaxTrees) : input = [NoInput EXCEPT ![1] = ts]
  /\ InitPass
  /\ NoSession
  /\ NoAux

NextCfg ==
  \/ Next
  \/ \E i \in Inst : Cfg(i)

SpecCfg == InitCfg /\ [][NextCfg]_vars

\* a cfg() result for the list c: c in order, then one action-less point
WellTerminated(r, c) ==
  /\ Len(r) = Len(c) + 1
  /\ ~r[Len(r)].hasAction
  /\ \A k \in 1..Len(c) : r[k].hasAction /\ r[k] = c[k]

\* a cfg() result without its last element
Front(r) == SubSeq(r, 1, Len(r) - 1)

(***************************************************************************)
(* C8: cfg() returns the actions emitted so far, in order, followed by one *)
(* action-less point; the call changes no pass state; the list only grows, *)
(* so an earlier result without its sentinel is a prefix of every later    *)
(* one.                                                                    *)
(***************************************************************************)
C8_CfgAppendOnly ==
  [][\A i \in Inst :
       /\ Cfg(i) =>
            /\ WellTerminated(returned'[i], cfg[i])
            /\ cfg' = cfg /\ tmp' = tmp /\ writable' = writable /\ stack' = stack
            /\ returned[i] # <<>> => IsPrefix(Front(returned[i]), Front(returned'[i]))
       /\ IsPrefix(cfg[i], cfg'[i])
       /\ \A k \in 1..Len(cfg'[i]) : cfg'[i][k].hasAction]_vars

\* cfg() was called before and after actions were emitted
C8_Witness ==
  /\ Len(returned[1]) >= 3
  /\ Len(cfg[1]) > Len(returned[1])

(***************************************************************************)
(* Part II: the expression DSL of node.py. A session holds Node objects in *)
(* a heap; the operators build new objects and mutate existing ones in     *)
(* place, and every object stays reachable to later operator applications. *)
(* Indices are left out: the operators modelled here never read them.      *)
(***************************************************************************)
\* a Node object: its class, its tensor (IndexedTensor), its scalar
\* (ScalarMultiplication) and _children, a list of references
Obj(k, t, s, ch) == [kind |-> k, tensor |-> t, scalar |-> s, children |-> ch]

\* an operator application that returns v and leaves the heap h
Returns(h, v) == [heap |-> h, value |-> v, error |-> "None"]

\* an operator application that raises e, with the heap as it is by then
Raises(h, e) == [heap |-> h, value |-> Number(0), error |-> e]

isinstance(h, ref, k) == ref.node /\ h[ref.v].kind = k

\* a constructor call: the new object joins the heap
New(h, obj) == Returns(Append(h, obj), NodeRef(Len(h) + 1))

\* a _checkMultipleScalarMults that accepts everything
checkMultipleScalarMults_Never(h, self) == FALSE

\* _checkMultipleScalarMults: whether it raises ValueError for self
checkMultipleScalarMults(h, self) == isinstance(h, self, "ScalarMultiplication")

\* a _binOp that always constructs a fresh binary node
binOp_NoFolding(h, self, other, opType) == New(h, Obj(opType, "", 0, <<self, other>>))

\* Node._binOp
binOp(h, self, other, opType) ==
  IF isinstance(h, self, opType)
  THEN Returns([h EXCEPT ![self.v].children =
                  @ \o (IF isinstance(h, other, opType) THEN h[other.v].children ELSE <<other>>)],
               self)
  ELSE IF isinstance(h, other, opType)
  THEN Returns([h EXCEPT ![other.v].children = <<self>> \o @], other)
  ELSE New(h, Obj(opType, "", 0, <<self, other>>))

\* UnaryOp.term
term(h, self) == h[self.v].children[1]

\* ScalarMultiplication.setTerm
setTerm(h, self, t) == [h EXCEPT ![self.v].children[1] = t]

\* Node.__mul__
RECURSIVE mul(_, _, _)
mul(h, self, other) ==
  IF ~other.node
  THEN IF checkMultipleScalarMults(h, self) THEN Raises(h, "ValueError")
       ELSE New(h, Obj("ScalarMultiplication", "", other.v, <<self>>))
  ELSE IF isinstance(h, self, "ScalarMultiplication")
  THEN IF checkMultipleScalarMults(h, other) THEN Raises(h, "ValueError")
       ELSE LET r == mul(h, term(h, self), other)
            IN  IF r.error # "None" THEN r
                ELSE Returns(setTerm(r.heap, self, r.value), self)
  ELSE IF isinstance(h, other, "ScalarMultiplication")
  THEN IF checkMultipleScalarMults(h, self) THEN Raises(h, "ValueError")
       ELSE LET r == mul(h, self, term(h, other))
            IN  IF r.error # "None" THEN r
                ELSE Returns(setTerm(r.heap, other, r.value), other)
  ELSE binOp(h, self, other, "Einsum")

\* Node.__rmul__
rmul(h, self, other) == mul(h, self, other)

\* Node.__add__
add(h, self, other) ==
  IF ~other.node THEN Raises(h, "ValueError") ELSE binOp(h, self, other, "Add")

\* Node.__radd__
radd(h, self, other) == add(h, self, other)

\* Node.__neg__
neg(h, self) ==
  IF checkMultipleScalarMults(h, self) THEN Raises(h, "ValueError")
  ELSE New(h, Obj("ScalarMultiplication", "", -1, <<self>>))

\* Node.__sub__: -other is other.__neg__() for a Node and the negative of a number
sub(h, self, other) ==
  LET negated == IF other.node THEN neg(h, other) ELSE Returns(h, Number(-other.v))
  IN  IF negated.error # "None" THEN negated
      ELSE binOp(negated.heap, self, negated.value, "Add")

\* Node.__le__; self == other is object identity
le(h, self, other) ==
  IF isinstance(h, other, "IndexedTensor") /\ self # other
  THEN LET e == New(h, Obj("Einsum", "", 0, <<other>>))
       IN  New(e.heap, Obj("Assign", "", 0, <<self, e.value>>))
  ELSE New(h, Obj("Assign", "", 0, <<self, other>>))

\* the expression x op y: the left operand's method if it is a Node, else the
\* right operand's reflected method; Node reflects + and * only
Apply(h, op, x, y) ==
  CASE op = "add" -> IF x.node THEN add(h, x, y) ELSE radd(h, y, x)
    [] op = "mul" -> IF x.node THEN mul(h, x, y) ELSE rmul(h, y, x)
    [] op = "sub" -> IF x.node THEN sub(h, x, y) ELSE Raises(h, "TypeError")
    [] op = "le"  -> IF x.node THEN le(h, x, y) ELSE Raises(h, "TypeError")
    [] op = "neg" -> neg(h, x)

(***************************************************************************)
(* A DSL session                                                           *)
(***************************************************************************)
\* the numbers the session uses as non-expression operands
Numbers == {2}

\* the values a session can name: every object built so far, and the numbers
Values == {NodeRef(id) : id \in 1..Len(heap)} \cup {Number(n) : n \in Numbers}

Objects == {NodeRef(id) : id \in 1..Len(heap)}

\* the session evaluates x op y
Evaluate(op, x, y) ==
  /\ ops < MaxOps
  /\ x.node \/ y.node
  /\ LET r == Apply(heap, op, x, y)
     IN  /\ heap' = r.heap
         /\ outcome' = [op |-> op, left |-> x, right |-> y, value |-> r.value, error |-> r.error]
  /\ ops' = ops + 1
  /\ UNCHANGED <<passVars, auxVars>>

OpAdd == \E x, y \in Values : Evaluate("add", x, y)

OpSub == \E x, y \in Values : Evaluate("sub", x, y)

OpMul == \E x, y \in Values : Evaluate("mul", x, y)

OpLe == \E x, y \in Values : Evaluate("le", x, y)

OpNeg == \E x \in Objects : Evaluate("neg", x, x)

\* three IndexedTensors, A['ij'], B['ij'], C['ij'], and nothing lowered
InitDsl ==
  /\ heap = <<Obj("IndexedTensor", "A", 0, <<>>), Obj("IndexedTensor", "B", 0, <<>>),
              Obj("IndexedTensor", "C", 0, <<>>)>>
  /\ outcome = NoOutcome
  /\ ops = 0
  /\ input = NoInput
  /\ InitPass
  /\ NoAux

NextDsl == OpAdd \/ OpSub \/ OpMul \/ OpLe \/ OpNeg

SpecDsl == InitDsl /\ [][NextDsl]_vars

(***************************************************************************)
(* Vocabulary of the properties of the DSL                                 *)
(***************************************************************************)
\* the operands a sum contributes: an Add its children, anything else itself
Summands(h, ref) == IF isinstance(h, ref, "Add") THEN h[ref.v].children ELSE <<ref>>

\* no Add object has an Add among its children
NoNestedAdd(h) ==
  \A id \in 1..Len(h) :
    h[id].kind = "Add" =>
      \A k \in 1..Len(h[id].children) : ~isinstance(h, h[id].children[k], "Add")

\* no ScalarMultiplication object has a ScalarMultiplication as its term
NoNestedScalarMultiplication(h) ==
  \A id \in 1..Len(h) :
    h[id].kind = "ScalarMultiplication" =>
      ~isinstance(h, h[id].children[1], "ScalarMultiplication")

IsScalarMultiplication(h, ref) == isinstance(h, ref, "ScalarMultiplication")

\* the application r would put a scalar factor around a ScalarMultiplication:
\* a number times it on either side, two of them multiplied, its negation, or
\* its subtraction from an expression
WrapsScalarMultiplication(h, r) ==
  \/ /\ r.op = "mul"
     /\ \/ IsScalarMultiplication(h, r.left) /\ ~r.right.node
        \/ ~r.left.node /\ IsScalarMultiplication(h, r.right)
        \/ IsScalarMultiplication(h, r.left) /\ IsScalarMultiplication(h, r.right)
  \/ r.op = "neg" /\ IsScalarMultiplication(h, r.left)
  \/ r.op = "sub" /\ r.left.node /\ IsScalarMultiplication(h, r.right)

(***************************************************************************)
(* C9: x + y on two expressions is one Add whose children are the operands *)
(* left to right, an operand that is an Add contributing its children in   *)
(* its place; so (A+B)+C and A+(B+C) are both one Add of [A, B, C], and no *)
(* Add ever has an Add as a child.                                         *)
(***************************************************************************)
C9_AddFlattens ==
  [][/\ outcome'.op = "add" /\ outcome'.error = "None" =>
          /\ isinstance(heap', outcome'.value, "Add")
          /\ heap'[outcome'.value.v].children =
               Summands(heap, outcome'.left) \o Summands(heap, outcome'.right)
     /\ NoNestedAdd(heap')]_vars

\* A + (B + C) was evaluated: the result is the one Add of [A, B, C]
C9_Witness ==
  /\ outcome.op = "add" /\ outcome.error = "None"
  /\ outcome.left = NodeRef(1)
  /\ outcome.right = outcome.value
  /\ isinstance(heap, outcome.value, "Add")
  /\ heap[outcome.value.v].children = <<NodeRef(1), NodeRef(2), NodeRef(3)>>

(***************************************************************************)
(* C10: every operator application that would put a scalar factor around a *)
(* ScalarMultiplication raises ValueError and builds nothing, and no       *)
(* ScalarMultiplication ever has a ScalarMultiplication as its term.       *)
(***************************************************************************)
C10_NoDoubleScalarMultiplication ==
  [][/\ WrapsScalarMultiplication(heap, outcome') =>
          outcome'.error = "ValueError" /\ heap' = heap
     /\ NoNestedScalarMultiplication(heap')]_vars

\* 2 * (2 * X) was evaluated and raised
C10_Witness ==
  /\ outcome.op = "mul" /\ outcome.error = "ValueError"
  /\ ~outcome.left.node
  /\ IsScalarMultiplication(heap, outcome.right)

(***************************************************************************)
(* Ownership of children                                                   *)
(***************************************************************************)
\* BinOp.setChildren, Assign.setChildren: the test of an Assign's target.
\* Op.__init__ stores the children itself and no operator calls setChildren.
setChildren(h, self, children) ==
  IF h[self.v].kind = "Assign" /\ ~isinstance(h, children[1], "IndexedTensor")
  THEN Raises(h, "ValueError")
  ELSE IF Len(children) # 2 THEN Raises(h, "ValueError")
  ELSE Returns([h EXCEPT ![self.v].children = children], self)

\* the objects in the child list of object id
ChildIds(h, id) ==
  {h[id].children[k].v : k \in {j \in 1..Len(h[id].children) : h[id].children[j].node}}

\* the objects reached from the objects ids through 1 to n child links
RECURSIVE Descendants(_, _, _)
Descendants(h, ids, n) ==
  IF n = 0 THEN {}
  ELSE LET below == UNION {ChildIds(h, id) : id \in ids}
       IN  below \cup Descendants(h, below, n - 1)

\* no object is reachable from itself through child links
Acyclic(h) == \A id \in 1..Len(h) : id \notin Descendants(h, {id}, Len(h))

\* the places <<parent, k>> of the child lists that hold object id
Places(h, id) ==
  UNION {{<<parent, k>> : k \in {j \in 1..Len(h[parent].children) :
                                   h[parent].children[j] = NodeRef(id)}} :
         parent \in 1..Len(h)}

\* no object occurs more than once across all child lists
ExclusivelyOwned(h) == \A id \in 1..Len(h) : Cardinality(Places(h, id)) <= 1

(***************************************************************************)
(* C11: after any sequence of operator applications, reuse of a built      *)
(* value as an operand included, the objects form an acyclic tree with     *)
(* exclusively owned children: no object is reachable from itself through  *)
(* child links and no object occurs more than once across all child lists. *)
(***************************************************************************)
C11_AcyclicExclusiveTree == Acyclic(heap) /\ ExclusivelyOwned(heap)

(***************************************************************************)
(* C12: constructing an Assign whose left operand is not an IndexedTensor  *)
(* always raises, so every Assign that exists has an IndexedTensor as its  *)
(* first child.                                                            *)
(***************************************************************************)
C12_AssignTargetIsIndexedTensor ==
  /\ outcome.op = "le" /\ ~isinstance(heap, outcome.left, "IndexedTensor") =>
       outcome.error # "None"
  /\ \A id \in 1..Len(heap) :
       heap[id].kind = "Assign" => isinstance(heap, heap[id].children[1], "IndexedTensor")

(***************************************************************************)
(* C13: target <= rhs raises and builds no Assign whenever rhs is not an   *)
(* expression node.                                                        *)
(***************************************************************************)
C13_AssignSourceIsNode ==
  /\ outcome.op = "le" /\ ~outcome.right.node => outcome.error # "None"
  /\ \A id \in 1..Len(heap) :
       heap[id].kind = "Assign" => heap[id].children[2].node

(***************************************************************************)
(* C17: no Add built by + and - has a child that is not an expression      *)
(* node: + or - between an expression and a non-expression value raises    *)
(* instead of constructing or extending an Add.                            *)
(***************************************************************************)
C17_AddChildrenAreNodes ==
  /\ outcome.op \in {"add", "sub"} /\ ~(outcome.left.node /\ outcome.right.node) =>
       outcome.error # "None"
  /\ \A id \in 1..Len(heap) :
       heap[id].kind = "Add" =>
         \A k \in 1..Len(heap[id].children) : heap[id].children[k].node

(***************************************************************************)
(* Part III: the collection of the global tensors of a kernel,             *)
(* OptimisedKernelGenerator.generate (yateto/codegen/visitor.py) over      *)
(* SortedGlobalsList (yateto/controlflow/visitor.py)                       *)
(***************************************************************************)
MaxPoints == 2          \* most actions of a kernel's control-flow graph

\* the tensors of the kernels: Q alone, the group Q(0), Q(1), and K
KernelTensors == {"Q", "Q(0)", "Q(1)", "K"}

\* Tensor.baseName()
baseName(t) == IF t = "K" THEN "K" ELSE "Q"

\* a group() of None, and the {g} of a group tag g
NoGroup == {}

\* Tensor.group(), as the set {g} of its group tag g or as NoGroup
group(t) == CASE t = "Q(0)" -> {0} [] t = "Q(1)" -> {1} [] OTHER -> NoGroup

\* the Variables of the kernels: one per tensor, and a temporary
KernelVariables == {Variable(t, FALSE, t) : t \in KernelTensors} \cup {TemporaryVariable(0)}

\* the program points of the kernels: result = term for two Variables
KernelPoints ==
  {ProgramPoint(ProgramAction(r, VarTerm(v), FALSE, NoScalar)) : r, v \in KernelVariables}

\* the graphs handed to generate: AST2ControlFlow.cfg() results
KernelCfgs == {points \o <<Sentinel>> : points \in SeqsOf(KernelPoints, 1, MaxPoints)}

\* pp.action.result.variables() | pp.action.variables()
variables(action) == {action.result} \cup {action.term.vars[k] : k \in 1..Len(action.term.vars)}

\* the set V of SortedGlobalsList.visit, filtered by isGlobal
Globals(c) ==
  {var \in UNION {IF c[k].hasAction THEN variables(c[k].action) ELSE {} : k \in 1..Len(c)} :
     isGlobal(var)}

\* SortedGlobalsList.visit: the global Variables sorted by str(var). The order
\* of the strings is that of Variable.__str__, so every order is a result.
SortedGlobalsList_visit(c) ==
  LET G == Globals(c)
  IN  {s \in [1..Cardinality(G) -> G] : \A i, j \in 1..Cardinality(G) : i # j => s[i] # s[j]}

\* the raise statement of generate. Its argument formats node.name(), and
\* node is bound neither in generate nor in the module, so evaluating the
\* argument raises the NameError of 'node' and no ValueError is constructed.
GroupingConflict(bn) == [type |-> "NameError", named |-> "node"]

\* the loop of generate from the k-th Variable on, tensors being the
\* dictionary so far: base name to NoGroup (None) or to its set of group tags
RECURSIVE collect(_, _, _)
collect(vs, k, tensors) ==
  IF k > Len(vs) THEN [tensors |-> tensors, error |-> NoError]
  ELSE LET bn == baseName(vs[k].tensor)
           g == group(vs[k].tensor)
       IN  IF bn \in DOMAIN tensors
           THEN LET p == tensors[bn]
                IN  IF p # NoGroup /\ g # NoGroup
                    THEN collect(vs, k + 1, [tensors EXCEPT ![bn] = p \cup g])
                    ELSE IF ~(p = NoGroup /\ g = NoGroup)
                    THEN [tensors |-> tensors, error |-> GroupingConflict(bn)]
                    ELSE collect(vs, k + 1, tensors)
           ELSE collect(vs, k + 1, (bn :> g) @@ tensors)

\* OptimisedKernelGenerator.generate, up to the end of the collection
generate ==
  /\ ~kernel.ran
  /\ \E vs \in SortedGlobalsList_visit(kernel.cfg) :
       LET r == collect(vs, 1, <<>>)
       IN  kernel' = [kernel EXCEPT !.ran = TRUE, !.variables = vs,
                                    !.tensors = r.tensors, !.error = r.error]
  /\ UNCHANGED <<passVars, dslVars, build>>

InitKernel ==
  /\ \E c \in KernelCfgs : kernel = [NoKernel EXCEPT !.cfg = c]
  /\ build = NoBuild
  /\ input = NoInput
  /\ InitPass
  /\ NoSession

NextKernel == generate

SpecKernel == InitKernel /\ [][NextKernel]_vars

\* the base names of the global Variables of the graph c
BaseNames(c) == {baseName(var.tensor) : var \in Globals(c)}

\* the group tags of the global Variables of base name bn
GroupTags(c, bn) == UNION {group(var.tensor) : var \in {v \in Globals(c) : baseName(v.tensor) = bn}}

\* the base names that a grouped and an ungrouped global Variable share
Mixed(c) ==
  {bn \in BaseNames(c) :
     \E v, w \in Globals(c) : /\ baseName(v.tensor) = bn /\ baseName(w.tensor) = bn
                              /\ group(v.tensor) # NoGroup /\ group(w.tensor) = NoGroup}

\* without a mixed base name nothing is raised and every base name maps to
\* all its group tags, or to None
CollectsAllGroups ==
  kernel.ran /\ Mixed(kernel.cfg) = {} =>
    /\ kernel.error = NoError
    /\ DOMAIN kernel.tensors = BaseNames(kernel.cfg)
    /\ \A bn \in BaseNames(kernel.cfg) : kernel.tensors[bn] = GroupTags(kernel.cfg, bn)

\* generate raises exactly when a base name is mixed, in either order of encounter
RaisesIffMixed ==
  /\ kernel.ran => (Mixed(kernel.cfg) # {} <=> kernel.error # NoError)
  /\ CollectsAllGroups

(***************************************************************************)
(* C14: generate aborts with the grouping-conflict ValueError, naming the   *)
(* conflicting base name, exactly when a grouped and an ungrouped global   *)
(* Variable share a base name, in either order of encounter; otherwise it  *)
(* raises nothing and maps every base name to the set of all its group     *)
(* tags, or to None.                                                       *)
(***************************************************************************)
C14_GroupingConflictReported ==
  /\ kernel.ran =>
       /\ Mixed(kernel.cfg) # {} <=> kernel.error.type = "ValueError"
       /\ kernel.error.type = "ValueError" => kernel.error.named \in Mixed(kernel.cfg)
  /\ CollectsAllGroups

(***************************************************************************)
(* Part IV: construction and FLOP count of Product and Contraction         *)
(* (yateto/ast/node.py). An Indices value is the sequence of its index     *)
(* names with their extents.                                               *)
(***************************************************************************)
MaxRank == 2            \* most indices of an operand

IndexNames == {"i", "j", "k"}

Extents == {2, 3}

Index(n, e) == [name |-> n, size |-> e]

\* the names of the Indices I
names(I) == {I[k].name : k \in 1..Len(I)}

\* the Indices objects of rank 1 to MaxRank: no name twice
AllIndices ==
  {I \in SeqsOf({Index(n, e) : n \in IndexNames, e \in Extents}, 1, MaxRank) :
     Cardinality(names(I)) = Len(I)}

\* the extent of name n in I
sizeOf(I, n) == (CHOOSE x \in {I[k] : k \in 1..Len(I)} : x.name = n).size

\* Indices.__and__: the shared names
Indices_and(I, J) == names(I) \cap names(J)

\* Indices.__sub__: I without the names N, order kept
Indices_sub(I, N) == SelectSeq(I, LAMBDA x : x.name \notin N)

\* Indices.merged: I followed by J
merged(I, J) == I \o J

\* Indices.subShape: the extents of the names K
subShape(I, K) == [n \in K |-> sizeOf(I, n)]

\* Indices.permuted: the names in the order ns, each with its extent
permuted(I, ns) == [k \in 1..Len(ns) |-> Index(ns[k], sizeOf(I, ns[k]))]

\* the orders of the names N: the index strings that name exactly N
Orders(N) ==
  {ns \in [1..Cardinality(N) -> N] : \A a, b \in 1..Cardinality(N) : a # b => ns[a] # ns[b]}

\* str(indices): the names in order
str(I) == [k \in 1..Len(I) |-> I[k].name]

\* Op.setIndexPermutation on a node whose _eqspp and _memoryLayout are None
setIndexPermutation(node, ns) ==
  IF ns = str(node.indices) THEN node
  ELSE [node EXCEPT !.indices = permuted(node.indices, ns)]

\* Product.__init__
Product_init(lTerm, rTerm) ==
  LET K == Indices_and(lTerm.indices, rTerm.indices)
  IN  IF subShape(lTerm.indices, K) # subShape(rTerm.indices, K)
      THEN [error |-> "AssertionError", node |-> NoBuilt]
      ELSE [error |-> "None",
            node |-> Built("Product", merged(lTerm.indices, Indices_sub(rTerm.indices, K)),
                           {}, NoSpp)]

\* Contraction.__init__
Contraction_init(indices, lTerm, rTerm, sumIndices) ==
  LET li == Indices_sub(lTerm.indices, sumIndices)
      lr == Indices_sub(Indices_sub(rTerm.indices, sumIndices), names(li))
  IN  [error |-> "None",
       node |-> setIndexPermutation(Built("Contraction", merged(li, lr), sumIndices, NoSpp),
                                    indices)]

\* Product(lTerm, rTerm) on the operands
ConstructProduct ==
  /\ ~build.made
  /\ LET r == Product_init(build.lTerm, build.rTerm)
     IN  build' = [build EXCEPT !.made = TRUE, !.error = r.error, !.node = r.node]
  /\ UNCHANGED <<passVars, dslVars, kernel>>

\* Contraction(indices, lTerm, rTerm, sumIndices) on the operands, for any
\* set of summed names and any order of the remaining names as indices
ConstructContraction ==
  /\ ~build.made
  /\ LET all == names(build.lTerm.indices) \cup names(build.rTerm.indices)
     IN  \E sumIndices \in SUBSET all : \E indices \in Orders(all \ sumIndices) :
           LET r == Contraction_init(indices, build.lTerm, build.rTerm, sumIndices)
           IN  build' = [build EXCEPT !.made = TRUE, !.error = r.error, !.node = r.node]
  /\ UNCHANGED <<passVars, dslVars, kernel>>

\* two operands of any indices; their patterns play no part in construction
InitShapes ==
  /\ \E I, J \in AllIndices :
       build = [NoBuild EXCEPT !.lTerm = Term(I, NoSpp), !.rTerm = Term(J, NoSpp)]
  /\ kernel = NoKernel
  /\ input = NoInput
  /\ InitPass
  /\ NoSession

NextShapes == ConstructProduct \/ ConstructContraction

SpecShapes == InitShapes /\ [][NextShapes]_vars

\* a shared index name has different extents in the two operands
ShapesMismatch(l, r) ==
  \E n \in Indices_and(l.indices, r.indices) : sizeOf(l.indices, n) # sizeOf(r.indices, n)

\* the left operand's non-summed indices, then the right operand's remaining ones
LeftThenRight(l, r, sumIndices) ==
  Indices_sub(l.indices, sumIndices)
    \o Indices_sub(r.indices, sumIndices \cup (names(l.indices) \ sumIndices))

\* the constructor failed or built its node as C15 states
ConstructedAsClaimed ==
  IF ShapesMismatch(build.lTerm, build.rTerm)
  THEN build.error # "None" /\ build.node = NoBuilt
  ELSE /\ build.error = "None"
       /\ build.node.indices = LeftThenRight(build.lTerm, build.rTerm, build.node.sumIndices)

\* Product alone is constructed as claimed
ProductConstructedAsClaimed ==
  build.made /\ (build.error # "None" \/ build.node.class = "Product") => ConstructedAsClaimed

(***************************************************************************)
(* C15: constructing a Product or a Contraction from operands that share   *)
(* an index name of different extents raises and yields no node; when all  *)
(* shared names have equal extents it succeeds and the node's indices are  *)
(* the left operand's non-summed indices followed by the right operand's   *)
(* remaining non-summed ones.                                              *)
(***************************************************************************)
C15_SharedExtentsChecked == build.made => ConstructedAsClaimed

(***************************************************************************)
(* Sparsity pattern and FLOP count of a Product or Contraction. A pattern  *)
(* is the set of its non-zero entries, an entry the tuple of its           *)
(* positions along the indices.                                            *)
(***************************************************************************)
\* the entries of a tensor of indices I
Entries(I) ==
  {t \in [1..Len(I) -> UNION {1..e : e \in Extents}] : \A k \in 1..Len(I) : t[k] <= I[k].size}

\* aspp.einsum('I,J->O', A, B) on patterns: the entries of O that some
\* assignment of all index names reaches through an entry of A and one of B
einsum(I, J, O, A, B) ==
  LET all == names(I) \cup names(J)
      extent(n) == IF n \in names(I) THEN sizeOf(I, n) ELSE sizeOf(J, n)
      assignments == {a \in [all -> UNION {1..e : e \in Extents}] : \A n \in all : a[n] <= extent(n)}
      at(a, X) == [k \in 1..Len(X) |-> a[X[k].name]]
  IN  {at(a, O) : a \in {b \in assignments : at(b, I) \in A /\ at(b, J) \in B}}

\* _productContractionLoGSparsityPattern on the children's eqspp()
productContractionLoGSparsityPattern(node, lTerm, rTerm) ==
  einsum(lTerm.indices, rTerm.indices, node.indices, lTerm.eqspp.nz, rTerm.eqspp.nz)

\* Product.nonZeroFlops, Contraction.nonZeroFlops; count_nonzero of None is
\* an AttributeError
nonZeroFlops(node) ==
  IF node.class = "Contraction" THEN [error |-> "NotImplementedError", value |-> 0]
  ELSE IF ~node.eqspp.known THEN [error |-> "AttributeError", value |-> 0]
  ELSE [error |-> "None", value |-> Cardinality(node.eqspp.nz)]

\* node.setEqspp(node.computeSparsityPattern()) on the constructed node
computeSparsityPattern ==
  /\ build.made /\ build.error = "None"
  /\ ~build.node.eqspp.known
  /\ ~build.asked
  /\ build' = [build EXCEPT !.node.eqspp =
                 Spp(productContractionLoGSparsityPattern(build.node, build.lTerm, build.rTerm))]
  /\ UNCHANGED <<passVars, dslVars, kernel>>

\* node.nonZeroFlops() on the constructed node
NonZeroFlops ==
  /\ build.made /\ build.error = "None"
  /\ ~build.asked
  /\ LET r == nonZeroFlops(build.node)
     IN  build' = [build EXCEPT !.asked = TRUE, !.flopsError = r.error, !.flops = r.value]
  /\ UNCHANGED <<passVars, dslVars, kernel>>

\* the operands A['ik'] and B['kj'] of extents 2, with any patterns
LeftIndices == <<Index("i", 2), Index("k", 2)>>

RightIndices == <<Index("k", 2), Index("j", 2)>>

InitFlops ==
  /\ \E A \in SUBSET Entries(LeftIndices) : \E B \in SUBSET Entries(RightIndices) :
       build = [NoBuild EXCEPT !.lTerm = Term(LeftIndices, Spp(A)),
                               !.rTerm = Term(RightIndices, Spp(B))]
  /\ kernel = NoKernel
  /\ input = NoInput
  /\ InitPass
  /\ NoSession

NextFlops == ConstructProduct \/ ConstructContraction \/ computeSparsityPattern \/ NonZeroFlops

SpecFlops == InitFlops /\ [][NextFlops]_vars

\* nonZeroFlops() was called on a node of class c whose pattern was computed
AskedComputed(c) == build.asked /\ build.node.class = c /\ build.node.eqspp.known

\* nonZeroFlops() returned the number of non-zero entries of the node's pattern
ReturnedResultCount ==
  build.flopsError = "None" /\ build.flops = Cardinality(build.node.eqspp.nz)

\* for a Product the count is that of the triples (i, k, j) with A[i, k] and B[k, j]
ProductFlopsAreResultCount ==
  AskedComputed("Product") =>
    /\ ReturnedResultCount
    /\ build.flops = Cardinality({t \in build.lTerm.eqspp.nz \X build.rTerm.eqspp.nz :
                                    t[1][2] = t[2][1]})

(***************************************************************************)
(* C16: for a Product and for a Contraction whose sparsity pattern has     *)
(* been computed, nonZeroFlops() returns exactly the number of non-zero    *)
(* entries of the node's result pattern.                                   *)
(***************************************************************************)
C16_FlopsAreResultCount ==
  AskedComputed("Product") \/ AskedComputed("Contraction") => ReturnedResultCount

====
